---- MODULE Spec2Model ----
(***************************************************************************)
(* pygdsm: sky models (GlobalSkyModel, GlobalSkyModel16,                   *)
(* LowFrequencySkyModel, HaslamSkyModel) and the observer built on them    *)
(* (BaseObserver).                                                         *)
(*                                                                         *)
(* A behaviour follows ONE object: either a stand-alone sky model, or an   *)
(* observer that owns a default-constructed sky model.                     *)
(*                                                                         *)
(* Arrays.  A numpy map is a record [shape, rows]: shape is the tuple      *)
(* numpy reports, rows holds one row per frequency.  A row is the term the *)
(* code computes for that frequency (which table, which interpolant        *)
(* family, which frequency, which additive offset); the value of pixel q   *)
(* of a row is the pair (row, q).  The observer's per-pixel arrays         *)
(* (remap index, mask, observed sky) are held explicitly for a ring of     *)
(* NPix directions, a one-dimensional sky on which the zenith moves with   *)
(* the clock.                                                              *)
(*                                                                         *)
(* Specifications: SpecNew (the constructors), SpecSky (a stand-alone sky  *)
(* model), SpecObs (an observer with the sky model it owns), SpecPix (the  *)
(* pixel/coordinate conversions), SpecRace (two callers on one observer)   *)
(* and SpecFetch (download_from_url_list, one download at a time).         *)
(*                                                                         *)
(* Frequencies are exact: a native frequency is [mhz, hz] (whole MHz and   *)
(* the remaining Hz), temperatures are in mK.                              *)
(***************************************************************************)
EXTENDS Integers, Sequences, FiniteSets, TLC

VARIABLES gsm, ov, last, frames

vars == <<gsm, ov, last, frames>>

(* Python's None, and an attribute the class does not have *)
None == [none |-> TRUE]
NoAttr == "<absent>"

-----------------------------------------------------------------------------
(* Bounds *)

(* longest frequency sequence passed to generate *)
MaxK == 2
(* directions of the ring the observer's arrays are held for *)
NPix == 8
(* clock values (the zenith advances one ring step per clock step) *)
MaxTime == 2
(* angle steps between neighbouring directions of the ring: elevations are
   finer than the pixel grid *)
PixStep == 2
(* largest HEALPix order (nside = 2^order) whose pixels are converted *)
MaxOrder == 2
(* longest list of URLs handed to download_from_url_list *)
MaxUrls == 3

-----------------------------------------------------------------------------
(* Program constants *)

T_CMB == 2725
NSIDE_GSM08 == 512
NSIDE_GSM16_HI == 1024
NSIDE_GSM16_LOW == 64
NSIDE_LFSM == 256
NSIDE_HASLAM == 512
FLOOR_MHZ == 10
CEIL_GSM08_MHZ == 94000
CEIL_GSM16_GHZ == 5000
CEIL_LFSM_MHZ == 408
OBS_DEFAULT_FREQ == 100
HZ_PER_MHZ == 1000000
MHZ_PER_GHZ == 1000

-----------------------------------------------------------------------------
(* Inputs *)

Units == {"Hz", "MHz", "GHz"}
Kinds == {"GSM08", "GSM16", "LFSM", "Haslam"}
Basemaps == {"5deg", "wmap", "haslam"}
Families == {"cubic", "pchip"}
DataUnits16 == {"MJysr", "TCMB", "TRJ"}

(* what a caller passes as freqs: a scalar or a sequence *)
Scalar(v) == [scalar |-> TRUE, vals |-> <<v>>]
Vector(s) == [scalar |-> FALSE, vals |-> s]

(* scalar frequencies tried: both sides of each band edge, in MHz and GHz *)
FreqVals == {9, 10, 408, 409, 5000, 5001, 94000, 94001}
(* elements of the frequency sequences tried *)
SeqFreqVals == {10, 409}
(* arguments tried on the setters, valid and not *)
BasemapArgs == Basemaps \cup {"haslamalan"}
FamilyArgs == Families \cup {"linear"}

RECURSIVE SeqsUpTo(_, _)
SeqsUpTo(S, n) ==
    IF n = 0 THEN {<<>>}
    ELSE LET shorter == SeqsUpTo(S, n - 1)
         IN  shorter \cup {Append(s, x) : s \in {t \in shorter : Len(t) = n - 1}, x \in S}

FreqInputs == {Scalar(v) : v \in FreqVals} \cup {Vector(s) : s \in SeqsUpTo(SeqFreqVals, MaxK)}

-----------------------------------------------------------------------------
(* Strings the code inspects letter by letter are sequences of letters *)

hi == <<"h", "i">>
low == <<"l", "o", "w">>

(* str.lower(), over the letters that occur in the inputs *)
LowerChar(c) ==
    CASE c = "A" -> "a" [] c = "F" -> "f" [] c = "G" -> "g" [] c = "H" -> "h"
      [] c = "I" -> "i" [] c = "L" -> "l" [] c = "M" -> "m" [] c = "O" -> "o"
      [] c = "S" -> "s" [] c = "W" -> "w"
      [] OTHER -> c
lower(s) == [i \in 1..Len(s) |-> LowerChar(s[i])]

(* str.strip(): leading and trailing blanks removed *)
RECURSIVE lstrip(_)
lstrip(s) == IF s # <<>> /\ Head(s) = " " THEN lstrip(Tail(s)) ELSE s
RECURSIVE rstrip(_)
rstrip(s) == IF s # <<>> /\ s[Len(s)] = " " THEN rstrip(SubSeq(s, 1, Len(s) - 1)) ELSE s
strip(s) == rstrip(lstrip(s))

-----------------------------------------------------------------------------
(* Sky models *)

(* hp.nside2npix *)
nside2npix(nside) == 12 * nside * nside

(* freqs.to('MHz').value for one value, exactly *)
ToMHz(v, unit) ==
    CASE unit = "Hz"  -> [mhz |-> v \div HZ_PER_MHZ, hz |-> v % HZ_PER_MHZ]
      [] unit = "MHz" -> [mhz |-> v, hz |-> 0]
      [] unit = "GHz" -> [mhz |-> v * MHZ_PER_GHZ, hz |-> 0]

(* np.array(freqs) * units.Unit(self.freq_unit); np.array() of a Quantity
   keeps the numbers and drops its unit *)
AsQuantity_keepsOwnUnit(freqs, unit) ==
    [scalar |-> freqs.scalar, vals |-> freqs.vals,
     unit |-> IF "unit" \in DOMAIN freqs THEN freqs.unit ELSE unit]
AsQuantity(freqs, unit) == [scalar |-> freqs.scalar, vals |-> freqs.vals, unit |-> unit]

NativeFreqs(q) == [i \in 1..Len(q.vals) |-> ToMHz(q.vals[i], q.unit)]

(* assert np.min(freqs) >= floor *)
AtLeastFloor(f, floorMHz) == f.mhz >= floorMHz
(* a ceiling test that excludes the band edge *)
AtMostCeil_exclusive(f, ceilMHz) == f.mhz < ceilMHz

(* assert np.max(freqs) <= ceiling *)
AtMostCeil(f, ceilMHz) == f.mhz < ceilMHz \/ (f.mhz = ceilMHz /\ f.hz = 0)

(* a band that only the two global sky models enforce *)
HasRangeCheck_gsmOnly(kind) == kind \in {"GSM08", "GSM16"}

(* the models whose generate asserts its band *)
HasRangeCheck(kind) == kind \in {"GSM08", "GSM16", "LFSM"}
CeilMHz(kind) ==
    CASE kind = "GSM08" -> CEIL_GSM08_MHZ
      [] kind = "GSM16" -> CEIL_GSM16_GHZ * MHZ_PER_GHZ
      [] kind = "LFSM"  -> CEIL_LFSM_MHZ
      [] OTHER -> 0

InRange(kind, nf) ==
    \A i \in 1..Len(nf) : AtLeastFloor(nf[i], FLOOR_MHZ) /\ AtMostCeil(nf[i], CeilMHz(kind))

(* the family of the interpolants built for a method name: anything but
   'cubic' takes the else branch *)
FamilyOf(method) == IF method = "cubic" THEN "cubic" ELSE "pchip"

(* a row whose LFSM branch never removes the background *)
RowOf_lfsmKeepsCmb(g, f) ==
    CASE g.kind = "GSM08" ->
            [model |-> "GSM08", freq |-> f, basis |-> g.pca_map_data,
             interp |-> g.interp_comps, unit |-> g.data_unit,
             offset |-> IF g.include_cmb THEN T_CMB ELSE 0]
      [] g.kind = "GSM16" ->
            [model |-> "GSM16", freq |-> f, basis |-> g.map_ni,
             interp |-> FamilyOf(g.interpolation_method), unit |-> g.data_unit,
             offset |-> IF g.include_cmb THEN T_CMB ELSE 0]
      [] g.kind = "LFSM" ->
            [model |-> "LFSM", freq |-> f, basis |-> g.pca_map,
             interp |-> NoAttr, unit |-> g.data_unit,
             offset |-> 0]
      [] g.kind = "Haslam" ->
            [model |-> "Haslam", freq |-> f, basis |-> g.data,
             interp |-> NoAttr, unit |-> g.data_unit,
             offset |-> IF g.include_cmb THEN T_CMB ELSE 0]

(* one row of the synthesised map, for native frequency f.  A pixel of the
   row is the model's interpolated value plus offset mK of thermodynamic
   temperature, the sum expressed in unit: GSM08 and Haslam add T_CMB in K,
   LFSM (whose data hold the background) subtracts it, GSM16 adds
   K_CMB2MJysr(T) and then applies the conversion to data_unit, which is
   linear. *)
RowOf(g, f) ==
    CASE g.kind = "GSM08" ->
            [model |-> "GSM08", freq |-> f, basis |-> g.pca_map_data,
             interp |-> g.interp_comps, unit |-> g.data_unit,
             offset |-> IF g.include_cmb THEN T_CMB ELSE 0]
      [] g.kind = "GSM16" ->
            [model |-> "GSM16", freq |-> f, basis |-> g.map_ni,
             interp |-> FamilyOf(g.interpolation_method), unit |-> g.data_unit,
             offset |-> IF g.include_cmb THEN T_CMB ELSE 0]
      [] g.kind = "LFSM" ->
            [model |-> "LFSM", freq |-> f, basis |-> g.pca_map,
             interp |-> NoAttr, unit |-> g.data_unit,
             offset |-> IF g.include_cmb = FALSE THEN 0 - T_CMB ELSE 0]
      [] g.kind = "Haslam" ->
            [model |-> "Haslam", freq |-> f, basis |-> g.data,
             interp |-> NoAttr, unit |-> g.data_unit,
             offset |-> IF g.include_cmb THEN T_CMB ELSE 0]

(* a map whose rows all take the coefficients of the first frequency *)
FullMap_firstFrequency(g, nf) ==
    [shape |-> <<Len(nf), nside2npix(g.nside)>>, rows |-> [i \in 1..Len(nf) |-> RowOf(g, nf[1])]]

(* the number a row's background adds to a pixel, as a multiple of the
   row's offset.  GSM08, LFSM and Haslam add or subtract T_CMB itself, in K.
   GSM16 adds K_CMB2MJysr(T, nu) to a map in MJy/sr and multiplies by the
   conversion: 1/K_CMB2MJysr(1, nu) for TCMB, which gives T back,
   1/K_RJ2MJysr(1, nu) for TRJ, and 1 for MJysr. *)
CmbScale(row) ==
    IF row.model = "GSM16"
    THEN CASE row.unit = "TCMB" -> "1"
           [] row.unit = "TRJ" -> "K_CMB2MJysr(1, nu) / K_RJ2MJysr(1, nu)"
           [] OTHER -> "K_CMB2MJysr(1, nu)"
    ELSE "1"

(* the (freq, pixel) array before the leading axis is dropped *)
FullMap(g, nf) ==
    [shape |-> <<Len(nf), nside2npix(g.nside)>>, rows |-> [i \in 1..Len(nf) |-> RowOf(g, nf[i])]]

(* a generate that never drops the leading axis *)
Squeeze_never(m) == m

(* if map_out.shape[0] == 1: map_out = map_out[0]   (and numpy's squeeze()) *)
Squeeze(m) ==
    IF m.shape[1] = 1 THEN [shape |-> Tail(m.shape), rows |-> m.rows] ELSE m

(* a generate that stores the frequencies before it checks their range *)
Generate_storesFreqsFirst(g, freqs) ==
    LET q  == AsQuantity(freqs, g.freq_unit)
        nf == NativeFreqs(q)
        g0 == [g EXCEPT !.generated_map_freqs = q]
    IN  IF Len(nf) = 0
        THEN [err |-> "ValueError", g |-> g, ret |-> None]
        ELSE IF HasRangeCheck(g.kind) /\ ~InRange(g.kind, nf)
        THEN [err |-> "RuntimeError", g |-> g0, ret |-> None]
        ELSE LET m == Squeeze(FullMap(g0, nf))
             IN  [err |-> "none", g |-> [g0 EXCEPT !.generated_map_data = m], ret |-> m]

(* a generate whose map_out is the loaded array itself, so that adding the
   background writes into it *)
Generate_cmbIntoBasis(g, freqs) ==
    LET q  == AsQuantity(freqs, g.freq_unit)
        nf == NativeFreqs(q)
    IN  IF Len(nf) = 0
        THEN [err |-> "ValueError", g |-> g, ret |-> None]
        ELSE IF HasRangeCheck(g.kind) /\ ~InRange(g.kind, nf)
        THEN [err |-> "RuntimeError", g |-> g, ret |-> None]
        ELSE LET g1 == IF g.kind = "GSM16"
                       THEN [g EXCEPT !.interp_comps = FamilyOf(g.interpolation_method)]
                       ELSE g
                 m  == Squeeze(FullMap(g1, nf))
                 g2 == IF g.include_cmb /\ Len(nf) = 1
                       THEN [g1 EXCEPT !.pca_map_data = "<map_out>", !.map_ni = "<map_out>",
                                       !.pca_map = "<map_out>", !.data = "<map_out>"]
                       ELSE g1
             IN  [err |-> "none",
                  g |-> [g2 EXCEPT !.generated_map_data = m, !.generated_map_freqs = q],
                  ret |-> m]

(* generate(freqs) of every sky model: result [err, g, ret].  map_out is a
   new array in every class (einsum, np.zeros, np.outer): the in-place += and
   *= of the background and the unit conversion write into it alone *)
Generate(g, freqs) ==
    LET q  == AsQuantity(freqs, g.freq_unit)
        nf == NativeFreqs(q)
    IN  IF Len(nf) = 0
        THEN [err |-> "ValueError", g |-> g, ret |-> None]
        ELSE IF HasRangeCheck(g.kind) /\ ~InRange(g.kind, nf)
        THEN [err |-> "RuntimeError", g |-> g, ret |-> None]
        ELSE LET g1 == IF g.kind = "GSM16"
                       THEN [g EXCEPT !.interp_comps = FamilyOf(g.interpolation_method)]
                       ELSE g
                 m  == Squeeze(FullMap(g1, nf))
             IN  [err |-> "none",
                  g |-> [g1 EXCEPT !.generated_map_data = m, !.generated_map_freqs = q],
                  ret |-> m]

(* update_interpolants of GlobalSkyModel: result [err, g] *)
PcaMapKey(basemap) ==
    CASE basemap = "5deg"   -> "component_maps_5deg"
      [] basemap = "haslam" -> "component_maps_408locked"
      [] basemap = "wmap"   -> "component_maps_23klocked"
      [] OTHER -> NoAttr

update_interpolants(g) ==
    IF PcaMapKey(g.basemap) = NoAttr
    THEN [err |-> "KeyError", g |-> g]
    ELSE [err |-> "none",
          g |-> [g EXCEPT !.pca_map_data = PcaMapKey(g.basemap),
                          !.interp_comps = FamilyOf(g.interpolation_method)]]

(* the tail all three setters share: rebuild the interpolants, then
   generate again when a map is held *)
RebuildAndRegenerate(g1) ==
    LET u == update_interpolants(g1)
    IN  IF u.err # "none" THEN [err |-> u.err, g |-> g1]
        ELSE IF u.g.generated_map_freqs # None
        THEN LET r == Generate(u.g, u.g.generated_map_freqs)
             IN  [err |-> r.err, g |-> r.g]
        ELSE [err |-> "none", g |-> u.g]

set_basemap(g, new_basemap) == RebuildAndRegenerate([g EXCEPT !.basemap = new_basemap])
set_freq_unit(g, new_unit) == RebuildAndRegenerate([g EXCEPT !.freq_unit = new_unit])
set_interpolation_method(g, new_method) ==
    RebuildAndRegenerate([g EXCEPT !.interpolation_method = new_method])

(* what a path given to BaseSkyModel leads to *)
FileKinds == {"hdf5", "fits", "other", "missing"}

(* h5py.is_hdf5: False for a path that is not a file *)
is_hdf5(file) == file = "hdf5"

(* is_fits: open() is outside the try block, so a missing file raises
   FileNotFoundError before the signature is read *)
is_fits(file) ==
    IF file = "missing" THEN [err |-> "FileNotFoundError", val |-> FALSE]
    ELSE [err |-> "none", val |-> file = "fits"]

(* BaseSkyModel.__init__ with a readable archive *)
BaseSkyModel(kind, freq_unit, data_unit, basemap) ==
    [kind |-> kind, freq_unit |-> freq_unit, data_unit |-> data_unit, basemap |-> basemap,
     interpolation_method |-> NoAttr, include_cmb |-> FALSE, resolution |-> NoAttr,
     nside |-> 0, pca_map_data |-> NoAttr, interp_comps |-> NoAttr,
     map_ni |-> NoAttr, spec_nf |-> NoAttr, pca_map |-> NoAttr,
     pca_components |-> NoAttr, data |-> NoAttr,
     generated_map_data |-> None, generated_map_freqs |-> None]

(* BaseSkyModel.__init__ for a path: result [err, g] *)
BaseSkyModel__init__(name, filepath, freq_unit, data_unit, basemap) ==
    IF is_hdf5(filepath)
    THEN [err |-> "none", g |-> BaseSkyModel(name, freq_unit, data_unit, basemap)]
    ELSE IF is_fits(filepath).err # "none"
    THEN [err |-> is_fits(filepath).err, g |-> None]
    ELSE IF is_fits(filepath).val
    THEN [err |-> "none", g |-> BaseSkyModel(name, freq_unit, data_unit, basemap)]
    ELSE [err |-> "RuntimeError", g |-> None]

(* the constructors: result [err, g, loaded], loaded telling whether the
   constructor got as far as BaseSkyModel.__init__, which opens the data
   file *)
GlobalSkyModel(freq_unit, basemap, interpolation, include_cmb) ==
    IF basemap \notin Basemaps \/ interpolation \notin Families
    THEN [err |-> "RuntimeError", g |-> None, loaded |-> FALSE]
    ELSE LET b == BaseSkyModel("GSM08", freq_unit, "K", basemap)
             u == update_interpolants([b EXCEPT !.interpolation_method = interpolation,
                                                !.include_cmb = include_cmb])
         IN  [err |-> u.err, g |-> [u.g EXCEPT !.nside = NSIDE_GSM08], loaded |-> TRUE]

(* a constructor that compares the resolution tag as it was typed *)
GlobalSkyModel16_caseSensitive(freq_unit, data_unit, resolution, interpolation, include_cmb) ==
    IF data_unit \notin DataUnits16
    THEN [err |-> "RuntimeError", g |-> None, loaded |-> FALSE]
    ELSE IF resolution \notin {hi, <<"h", "i", "g", "h">>, <<"h">>, low, <<"l", "o">>, <<"l">>}
    THEN [err |-> "RuntimeError", g |-> None, loaded |-> FALSE]
    ELSE LET b == BaseSkyModel("GSM16", freq_unit, data_unit, "")
             res == IF resolution \in {hi, <<"h", "i", "g", "h">>, <<"h">>}
                    THEN "hi" ELSE "low"
         IN  [err |-> "none",
              g |-> [b EXCEPT !.interpolation_method = interpolation,
                              !.resolution = res,
                              !.include_cmb = include_cmb,
                              !.nside = IF res = "hi" THEN NSIDE_GSM16_HI
                                        ELSE NSIDE_GSM16_LOW,
                              !.map_ni = IF res = "hi" THEN "highres_maps"
                                         ELSE "lowres_maps",
                              !.spec_nf = "spectra"],
              loaded |-> TRUE]

(* GlobalSkyModel16.__init__: the unit, then the resolution tag (any case,
   three spellings each); the interpolation family is stored as given *)
GlobalSkyModel16(freq_unit, data_unit, resolution, interpolation, include_cmb) ==
    IF data_unit \notin DataUnits16
    THEN [err |-> "RuntimeError", g |-> None, loaded |-> FALSE]
    ELSE IF lower(resolution) \notin {hi, <<"h", "i", "g", "h">>, <<"h">>,
                                      low, <<"l", "o">>, <<"l">>}
    THEN [err |-> "RuntimeError", g |-> None, loaded |-> FALSE]
    ELSE LET b == BaseSkyModel("GSM16", freq_unit, data_unit, "")
             res == IF lower(resolution) \in {hi, <<"h", "i", "g", "h">>, <<"h">>}
                    THEN "hi" ELSE "low"
         IN  [err |-> "none",
              g |-> [b EXCEPT !.interpolation_method = interpolation,
                              !.resolution = res,
                              !.include_cmb = include_cmb,
                              !.nside = IF res = "hi" THEN NSIDE_GSM16_HI
                                        ELSE NSIDE_GSM16_LOW,
                              !.map_ni = IF res = "hi" THEN "highres_maps"
                                         ELSE "lowres_maps",
                              !.spec_nf = "spectra"],
              loaded |-> TRUE]

LowFrequencySkyModel(freq_unit, include_cmb) ==
    [err |-> "none",
     g |-> [BaseSkyModel("LFSM", freq_unit, "K", "LFSS")
                EXCEPT !.nside = NSIDE_LFSM, !.include_cmb = include_cmb,
                       !.pca_map = "lfsm_component_maps_3.0deg.dat",
                       !.pca_components = "lfsm_components.dat"],
     loaded |-> TRUE]

HaslamSkyModel(freq_unit, include_cmb) ==
    [err |-> "none",
     g |-> [BaseSkyModel("Haslam", freq_unit, "K", "Haslam")
                EXCEPT !.nside = NSIDE_HASLAM, !.include_cmb = include_cmb,
                       !.data = "haslam408 - T_CMB"],
     loaded |-> TRUE]

(* the sky model an observer class constructs: gsm() with its defaults *)
DefaultSkyModel(kind) ==
    CASE kind = "GSM08"  -> GlobalSkyModel("MHz", "haslam", "pchip", FALSE).g
      [] kind = "GSM16"  -> GlobalSkyModel16("MHz", "TCMB", hi, "pchip", FALSE).g
      [] kind = "LFSM"   -> LowFrequencySkyModel("MHz", FALSE).g
      [] kind = "Haslam" -> HaslamSkyModel("MHz", FALSE).g

-----------------------------------------------------------------------------
(* Observer *)

Pixels == 0..(NPix - 1)
Times == 0..(MaxTime - 1)
(* a quarter turn (pi/2) in angle steps *)
Quarter == (NPix * PixStep) \div 4

(* horizon elevations tried, in angle steps (a bare number: radians) *)
HorVals == {0 - 1, 0, 1, 2}
(* frequencies tried on the observer (its sky model is in MHz) *)
ObsFreqVals ==
    {50, CEIL_GSM16_GHZ * MHZ_PER_GHZ, CEIL_GSM16_GHZ * MHZ_PER_GHZ + 1}

(* an optional argument: <<>> when omitted *)
Omitted == <<>>
Given(v) == <<v>>
Opt(S) == {Omitted} \cup {Given(v) : v \in S}

(* degrees in one angle step *)
DegPerStep == 360 \div (NPix * PixStep)
(* a horizon elevation passed as the string of d degrees *)
InDegrees(d) == <<d, "deg">>
IsString(arg) == Len(arg) = 2
(* horizon elevations as the caller may pass them: omitted, a bare number,
   or the string of the same angle in degrees *)
HorizonInputs == Opt(HorVals) \cup {InDegrees(k * DegPerStep) : k \in HorVals}

Abs(x) == IF x < 0 THEN 0 - x ELSE x

(* np.isclose(a, b): |a - b| <= atol + rtol * |b| with rtol = 1e-5 and
   atol = 1e-8; for whole numbers that is |a - b| <= floor(|b| / 100000) *)
isclose(a, b) == Abs(a - b) <= Abs(b) \div 100000

(* self.radec_of(0, pi/2) followed by sky2hpix: the pixel under the zenith
   at the observer's date *)
ZenithPix(date) == date % NPix

(* great-circle distance of two ring directions, in angle steps *)
AngDist(p, q) ==
    LET d == Abs(p - q) IN PixStep * (IF d <= NPix - d THEN d ELSE NPix - d)

(* a mask whose disc grows with the horizon elevation *)
HorizonMask_wideningDisc(zen, horizon) ==
    [q \in Pixels |-> ~(AngDist(q, zen) <= Quarter + horizon)]

(* a mask whose disc is centred on direction 0 whatever the zenith *)
HorizonMask_fixedCentre(zen, horizon) ==
    [q \in Pixels |-> ~(AngDist(q, 0) <= Quarter - horizon)]

(* mask = ones; mask[hp.query_disc(vec_zen, radius = pi/2 - horizon)] = 0 *)
HorizonMask(zen, horizon) == [q \in Pixels |-> ~(AngDist(q, zen) <= Quarter - horizon)]

(* a rotation that turns the sky the other way round *)
RemapArray_backwards(zen) == [p \in Pixels |-> (p + NPix - zen) % NPix]

(* hrot = Rotator(rot=[ra_zen, dec_zen], inv=True); pix0 = ang2pix(hrot(theta, phi)) *)
RemapArray(zen) == [p \in Pixels |-> (p + zen) % NPix]

(* ra[self._pix0]: equatorial coordinate of the source pixel *)
ObservedRa(pix0) == [p \in Pixels |-> (pix0[p] + 1) % NPix]

(* sky[self._pix0] with mask[self._pix0]: hp.ma plus its mask.  Pixel p of
   the result holds the value of pixel pix[p] of the sky-model row. *)
MaskedSky(sky, pix0, mask) ==
    [row  |-> sky.rows[1],
     pix  |-> [p \in Pixels |-> pix0[p]],
     mask |-> [p \in Pixels |-> mask[pix0[p]]]]

(* ephem.degrees of a string: the number it spells, taken as degrees and
   turned into the angle's own unit *)
DegreesToAngle(d) == d \div DegPerStep

(* a reading of the argument that takes a string for a bare number *)
HorizonArg_stringAsNumber(horizon_elevation) ==
    IF horizon_elevation = Omitted \/ horizon_elevation[1] = 0 THEN 0
    ELSE horizon_elevation[1]

(* ephem.degrees(horizon_elevation or 0.0): None and 0 give 0.0, a string is
   degrees, a bare number is the angle itself *)
HorizonArg(horizon_elevation) ==
    IF horizon_elevation = Omitted THEN 0
    ELSE IF IsString(horizon_elevation) THEN DegreesToAngle(horizon_elevation[1])
    ELSE IF horizon_elevation[1] = 0 THEN 0
    ELSE horizon_elevation[1]

(* if self._horizon_elevation == h: unchanged, else store h *)
HorizonCheck(stored, h) == [stored |-> h, horizon_has_changed |-> stored # h]

(* a recompute test that forgets the clock *)
NeedRecompute_ignoresTime(time_has_changed, observed_sky, horizon_has_changed) ==
    observed_sky = None \/ horizon_has_changed

(* a recompute test without a cache: every call recomputes *)
NeedRecompute_always(time_has_changed, observed_sky, horizon_has_changed) == TRUE

(* if time_has_changed or self.observed_sky is None or horizon_has_changed *)
NeedRecompute(time_has_changed, observed_sky, horizon_has_changed) ==
    time_has_changed \/ observed_sky = None \/ horizon_has_changed

(* a constructor whose first map is not the one of the stored frequency *)
BaseObserver_otherFirstMap(kind, date) ==
    [gsm |-> Generate(DefaultSkyModel(kind), Scalar(OBS_DEFAULT_FREQ \div 2)).g,
     ov  |-> [_freq |-> OBS_DEFAULT_FREQ, _time |-> date, date |-> date,
              _horizon_elevation |-> 0, _pix0 |-> None, _mask |-> None,
              _observed_ra |-> None, observed_sky |-> None]]

(* BaseObserver.__init__ and _setup, for the observer class of a sky model *)
BaseObserver(kind, date) ==
    [gsm |-> Generate(DefaultSkyModel(kind), Scalar(OBS_DEFAULT_FREQ)).g,
     ov  |-> [_freq |-> OBS_DEFAULT_FREQ, _time |-> date, date |-> date,
              _horizon_elevation |-> 0, _pix0 |-> None, _mask |-> None,
              _observed_ra |-> None, observed_sky |-> None]]

(* the names init_gsm and init_observer know, lower-cased *)
ModelOfName(gsm_name) ==
    CASE gsm_name = <<"g", "s", "m">> -> "GSM08"
      [] gsm_name = <<"g", "s", "m", "0", "8">> -> "GSM08"
      [] gsm_name = <<"g", "s", "m", "1", "6">> -> "GSM16"
      [] gsm_name = <<"l", "f", "s", "m">> -> "LFSM"
      [] gsm_name = <<"h", "a", "s", "l", "a", "m">> -> "Haslam"
      [] OTHER -> NoAttr

(* an init_gsm that looks the name up as it was typed *)
init_gsm_asTyped(gsm_name, freq_unit, include_cmb) ==
    CASE ModelOfName(gsm_name) = "GSM08" ->
            GlobalSkyModel(freq_unit, "haslam", "pchip", include_cmb)
      [] ModelOfName(gsm_name) = "GSM16" ->
            GlobalSkyModel16(freq_unit, "TCMB", hi, "pchip", include_cmb)
      [] ModelOfName(gsm_name) = "LFSM" -> LowFrequencySkyModel(freq_unit, include_cmb)
      [] ModelOfName(gsm_name) = "Haslam" -> HaslamSkyModel(freq_unit, include_cmb)
      [] OTHER -> [err |-> "ValueError", g |-> None, loaded |-> FALSE]

(* init_gsm(gsm_name, freq_unit=..., include_cmb=...): the keyword arguments
   go to the constructor, whose other parameters take their defaults *)
init_gsm(gsm_name, freq_unit, include_cmb) ==
    CASE ModelOfName(strip(lower(gsm_name))) = "GSM08" ->
            GlobalSkyModel(freq_unit, "haslam", "pchip", include_cmb)
      [] ModelOfName(strip(lower(gsm_name))) = "GSM16" ->
            GlobalSkyModel16(freq_unit, "TCMB", hi, "pchip", include_cmb)
      [] ModelOfName(strip(lower(gsm_name))) = "LFSM" ->
            LowFrequencySkyModel(freq_unit, include_cmb)
      [] ModelOfName(strip(lower(gsm_name))) = "Haslam" ->
            HaslamSkyModel(freq_unit, include_cmb)
      [] OTHER -> [err |-> "ValueError", g |-> None, loaded |-> FALSE]

(* init_observer(gsm_name): result [err, obs], obs the pair [gsm, ov] *)
init_observer(gsm_name, date) ==
    IF ModelOfName(strip(lower(gsm_name))) = NoAttr
    THEN [err |-> "ValueError", obs |-> None]
    ELSE [err |-> "none", obs |-> BaseObserver(ModelOfName(strip(lower(gsm_name))), date)]

(* return self.observed_sky: the caller gets the object the observer holds *)
ReturnsObservedSky == [ref |-> "self.observed_sky"]

(* BaseObserver.generate: result [err, gsm, ov, ret] plus what the call did *)
ObserverGenerate(g, o, freq, obstime, horizon_elevation) ==
    LET regen  == freq # Omitted /\ ~isclose(freq[1], o._freq)
        gen    == IF regen THEN Generate(g, Scalar(freq[1]))
                  ELSE [err |-> "none", g |-> g, ret |-> None]
        o1     == IF regen THEN [o EXCEPT !._freq = freq[1]] ELSE o
        sky    == gen.g.generated_map_data
        time_has_changed == ~(obstime = Omitted \/ obstime[1] = o._time)
        o2     == IF time_has_changed
                  THEN [o1 EXCEPT !._time = obstime[1], !.date = obstime[1]]
                  ELSE o1
        h1     == HorizonArg(horizon_elevation)
        c1     == HorizonCheck(o2._horizon_elevation, h1)
        h2     == HorizonArg(Given(h1))
        c2     == HorizonCheck(c1.stored, h2)
        o3     == [o2 EXCEPT !._horizon_elevation = c2.stored]
        recomp == NeedRecompute(time_has_changed, o.observed_sky, c2.horizon_has_changed)
        zen    == ZenithPix(o3.date)
        o4     == IF recomp
                  THEN [o3 EXCEPT !._mask = HorizonMask(zen, o3._horizon_elevation),
                                  !._pix0 = RemapArray(zen),
                                  !._observed_ra = ObservedRa(RemapArray(zen))]
                  ELSE o3
        o5     == [o4 EXCEPT !.observed_sky = MaskedSky(sky, o4._pix0, o4._mask)]
        quiet  == [regenerated |-> regen, time_has_changed |-> time_has_changed,
                   recomputed |-> FALSE]
    IN  IF gen.err # "none"
        THEN [err |-> gen.err, gsm |-> g, ov |-> o, ret |-> None,
              did |-> [quiet EXCEPT !.regenerated = FALSE, !.time_has_changed = FALSE]]
        ELSE IF c1.stored < 0
        THEN [err |-> "ValueError", gsm |-> gen.g,
              ov |-> [o2 EXCEPT !._horizon_elevation = c1.stored],
              ret |-> None, did |-> quiet]
        ELSE [err |-> "none", gsm |-> gen.g, ov |-> o5, ret |-> ReturnsObservedSky,
              did |-> [quiet EXCEPT !.recomputed = recomp]]

-----------------------------------------------------------------------------
(* The state machine *)

(* frames holds the calls in progress when a call is followed statement by
   statement: each caller's position and locals.  Calls modelled whole leave
   it empty. *)
NoFrames == <<>>

(* last is what the caller holds of the call that has just ended: the
   operation, its arguments, the exception or the returned value, and what
   the call did.  The caller drops it before its next call. *)
NoCall == [op |-> "construct", arg |-> <<>>, err |-> "none", ret |-> None, did |-> None]

SkyModels ==
    {GlobalSkyModel(u, b, i, c).g : u \in Units, b \in Basemaps, i \in Families, c \in BOOLEAN}
    \cup {GlobalSkyModel16(u, d, r, i, c).g :
              u \in Units, d \in DataUnits16, r \in {hi, low}, i \in Families, c \in BOOLEAN}
    \cup {LowFrequencySkyModel(u, c).g : u \in Units, c \in BOOLEAN}
    \cup {HaslamSkyModel(u, c).g : u \in Units, c \in BOOLEAN}

(* a stand-alone sky model, freshly constructed *)
InitSky ==
    /\ last = NoCall
    /\ gsm \in SkyModels
    /\ ov = None
    /\ frames = NoFrames

(***************************************************************************)
(* healpy on the equatorial belt (rings nside..3*nside, |z| <= 2/3), RING   *)
(* ordering.  A longitude is a whole number of angle steps, Fine to the    *)
(* degree; a latitude b is carried as 135 * Fine * sin(b), which is a      *)
(* whole number on every ring of the belt.                                 *)
(***************************************************************************)
Nsides == {2 ^ k : k \in 0..MaxOrder}
Fine == 2 * (2 ^ MaxOrder)
QuarterTurn == 90 * Fine
FullTurn == 4 * QuarterTurn

(* pixels of one polar cap *)
ncap(nside) == 2 * nside * (nside - 1)

BeltPixels(nside) == ncap(nside)..(nside2npix(nside) - ncap(nside) - 1)

(* a pix2ang that puts every ring's first centre on longitude 0 *)
pix2ang_unshifted(nside, pix) ==
    LET ip    == pix - ncap(nside)
        iring == ip \div (4 * nside) + nside
        iphi  == (ip % (4 * nside)) + 1
    IN  [l |-> ((iphi - 1) * QuarterTurn) \div nside,
         b |-> ((2 * nside - iring) * QuarterTurn) \div nside]

(* hp.pix2ang(nside, pix, lonlat=True) for a pixel of the belt:
   z = (2*nside - iring) * 2/(3*nside), phi = (iphi - fodd) * pi/(2*nside),
   fodd = 1 if iring + nside is odd, 1/2 otherwise *)
pix2ang(nside, pix) ==
    LET ip      == pix - ncap(nside)
        iring   == ip \div (4 * nside) + nside
        iphi    == (ip % (4 * nside)) + 1
        twofodd == IF (iring + nside) % 2 = 1 THEN 2 ELSE 1
    IN  [l |-> ((2 * iphi - twofodd) * QuarterTurn) \div (2 * nside),
         b |-> ((2 * nside - iring) * QuarterTurn) \div nside]

(* hp.ang2pix(nside, l, b, lonlat=True): the belt branch counts the edge
   lines jp, jm below the point; above |z| = 2/3 the cap branch is taken,
   with nside * sqrt(3 * (1 - |z|)) to first order in |z| - 2/3 *)
ang2pix(nside, l, b) ==
    LET za  == IF b < 0 THEN 0 - b ELSE b
        tt  == l % FullTurn
    IN  IF za <= QuarterTurn
        THEN LET temp1  == QuarterTurn * nside + 2 * nside * tt
                 temp2  == nside * b
                 jp     == (temp1 - temp2) \div (2 * QuarterTurn)
                 jm     == (temp1 + temp2) \div (2 * QuarterTurn)
                 ir     == nside + 1 + jp - jm
                 kshift == 1 - (ir % 2)
                 t1     == jp + jm - nside + kshift + 1 + 8 * nside
                 ip     == (t1 \div 2) % (4 * nside)
             IN  ncap(nside) + (ir - 1) * 4 * nside + ip
        ELSE LET tp  == tt % QuarterTurn
                 tmp == nside * (2 * QuarterTurn - za)
                 jp  == (tp * tmp) \div (QuarterTurn * QuarterTurn)
                 jm  == ((QuarterTurn - tp) * tmp) \div (QuarterTurn * QuarterTurn)
                 ir  == jp + jm + 1
                 ip  == (tt * ir) \div QuarterTurn
             IN  IF b > 0 THEN 2 * ir * (ir - 1) + ip
                 ELSE nside2npix(nside) - 2 * ir * (ir + 1) + ip

(* the last place of an angle after the degree/radian conversions and the
   sine or cosine healpy's lonlat interface puts it through *)
Rounded(x) == {x - 1, x, x + 1}

(* hpix2sky(nside, pix_ids): the SkyCoord values the call can return *)
hpix2sky(nside, pix_ids) ==
    {[l |-> l % FullTurn, b |-> b] : l \in Rounded(pix2ang(nside, pix_ids).l),
                                     b \in Rounded(pix2ang(nside, pix_ids).b)}

(* sky2hpix(nside, sc) *)
sky2hpix(nside, sc) == ang2pix(nside, sc.l, sc.b)

(* a get_sky_temperature that adds the background when the model holds it *)
(* a lookup that leaves the background out when the map holds it already *)
get_sky_temperature_cmbOnce(g, coords, freqs, include_cmb) ==
    LET r == IF freqs # <<>> THEN Generate(g, freqs[1])
             ELSE [err |-> "none", g |-> g, ret |-> None]
        T_cmb == IF include_cmb /\ ~r.g.include_cmb THEN T_CMB ELSE 0
    IN  IF r.err # "none" THEN [err |-> r.err, g |-> r.g, ret |-> None]
        ELSE IF r.g.generated_map_data = None
        THEN [err |-> "AttributeError", g |-> r.g, ret |-> None]
        ELSE LET m   == r.g.generated_map_data
                 pix == ang2pix(r.g.nside, coords.l, coords.b)
             IN  [err |-> "none", g |-> r.g,
                  ret |-> IF Len(m.shape) = 2
                          THEN [shape |-> <<m.shape[1]>>,
                                vals |-> [i \in 1..m.shape[1] |->
                                            [row |-> m.rows[i], pix |-> pix,
                                             plus |-> T_cmb]]]
                          ELSE [row |-> m.rows[1], pix |-> pix, plus |-> T_cmb]]

get_sky_temperature_modelCmb(g, coords, freqs, include_cmb) ==
    LET r == IF freqs # <<>> THEN Generate(g, freqs[1])
             ELSE [err |-> "none", g |-> g, ret |-> None]
        T_cmb == IF r.g.include_cmb THEN T_CMB ELSE 0
    IN  IF r.err # "none" THEN [err |-> r.err, g |-> r.g, ret |-> None]
        ELSE IF r.g.generated_map_data = None
        THEN [err |-> "AttributeError", g |-> r.g, ret |-> None]
        ELSE LET m   == r.g.generated_map_data
                 pix == ang2pix(r.g.nside, coords.l, coords.b)
             IN  [err |-> "none", g |-> r.g,
                  ret |-> IF Len(m.shape) = 2
                          THEN [shape |-> <<m.shape[1]>>,
                                vals |-> [i \in 1..m.shape[1] |->
                                            [row |-> m.rows[i], pix |-> pix,
                                             plus |-> T_cmb]]]
                          ELSE [row |-> m.rows[1], pix |-> pix, plus |-> T_cmb]]

(* get_sky_temperature(coords, freqs=None, include_cmb=True): result
   [err, g, ret]; a returned value is the stored number of row and pixel
   plus T_cmb (the bare number 2.725, whatever the map's unit); with no map
   stored, None has no ndim *)
get_sky_temperature(g, coords, freqs, include_cmb) ==
    LET r == IF freqs # <<>> THEN Generate(g, freqs[1])
             ELSE [err |-> "none", g |-> g, ret |-> None]
        T_cmb == IF include_cmb THEN T_CMB ELSE 0
    IN  IF r.err # "none" THEN [err |-> r.err, g |-> r.g, ret |-> None]
        ELSE IF r.g.generated_map_data = None
        THEN [err |-> "AttributeError", g |-> r.g, ret |-> None]
        ELSE LET m   == r.g.generated_map_data
                 pix == ang2pix(r.g.nside, coords.l, coords.b)
             IN  [err |-> "none", g |-> r.g,
                  ret |-> IF Len(m.shape) = 2
                          THEN [shape |-> <<m.shape[1]>>,
                                vals |-> [i \in 1..m.shape[1] |->
                                            [row |-> m.rows[i], pix |-> pix,
                                             plus |-> T_cmb]]]
                          ELSE [row |-> m.rows[1], pix |-> pix, plus |-> T_cmb]]

(* coordinates and frequencies tried on get_sky_temperature *)
CoordArgs == {[l |-> 0, b |-> 0], [l |-> 200 * Fine, b |-> 0 - 45 * Fine]}
TempFreqArgs == {<<>>, <<Scalar(408)>>, <<Vector(<<10, 409>>)>>}

(* arguments tried on the constructors, valid and not *)
DataUnitArgs == DataUnits16 \cup {"furlongs/fortnight"}
ResolutionArgs ==
    {hi, <<"H", "I", "G", "H">>, <<"h">>, low, <<"L", "o">>, <<"l">>,
     <<"o", "h", "_", "h", "a", "i">>}
NameArgs ==
    {<<"g", "s", "m">>, <<"G", "S", "M", "0", "8">>, <<" ", "g", "s", "m", "1", "6", " ">>,
     <<"L", "F", "S", "M">>, <<"H", "a", "s", "l", "a", "m", " ">>,
     <<"g", "s", "m", "2", "0", "1", "6">>, <<"g", "s", "m", " ", "1", "6">>}

(* a program that has constructed nothing yet *)
InitNew ==
    /\ last = NoCall
    /\ gsm = None
    /\ ov = None
    /\ frames = NoFrames

(* an observer of one of the four observer classes, freshly constructed *)
InitObs ==
    /\ last = NoCall
    /\ \E kind \in Kinds :
          /\ gsm = BaseObserver(kind, 0).gsm
          /\ ov = BaseObserver(kind, 0).ov
    /\ frames = NoFrames

(* g.generate(freqs) on a stand-alone sky model *)
SkyGenerate(freqs) ==
    /\ last.op = NoCall.op /\ ov = None
    /\ \E r \in {Generate(gsm, freqs)} :
           /\ gsm' = r.g
           /\ last' = [op |-> "generate", arg |-> freqs, err |-> r.err, ret |-> r.ret,
                       did |-> None]
    /\ UNCHANGED ov
    /\ UNCHANGED frames

SetBasemap(new_basemap) ==
    /\ last.op = NoCall.op /\ ov = None /\ gsm.kind = "GSM08"
    /\ \E r \in {set_basemap(gsm, new_basemap)} :
           /\ gsm' = r.g
           /\ last' = [op |-> "set_basemap", arg |-> new_basemap, err |-> r.err,
                       ret |-> None, did |-> None]
    /\ UNCHANGED ov
    /\ UNCHANGED frames

SetFreqUnit(new_unit) ==
    /\ last.op = NoCall.op /\ ov = None /\ gsm.kind = "GSM08"
    /\ \E r \in {set_freq_unit(gsm, new_unit)} :
           /\ gsm' = r.g
           /\ last' = [op |-> "set_freq_unit", arg |-> new_unit, err |-> r.err,
                       ret |-> None, did |-> None]
    /\ UNCHANGED ov
    /\ UNCHANGED frames

SetInterpolationMethod(new_method) ==
    /\ last.op = NoCall.op /\ ov = None /\ gsm.kind = "GSM08"
    /\ \E r \in {set_interpolation_method(gsm, new_method)} :
           /\ gsm' = r.g
           /\ last' = [op |-> "set_interpolation_method", arg |-> new_method,
                       err |-> r.err, ret |-> None, did |-> None]
    /\ UNCHANGED ov
    /\ UNCHANGED frames

(* ov.generate(freq, obstime, horizon_elevation) *)
ObsGenerate(freq, obstime, horizon_elevation) ==
    /\ last.op = NoCall.op /\ ov # None
    /\ \E r \in {ObserverGenerate(gsm, ov, freq, obstime, horizon_elevation)} :
           /\ gsm' = r.gsm
           /\ ov' = r.ov
           /\ last' = [op |-> "observer_generate",
                       arg |-> [freq |-> freq, obstime |-> obstime,
                                horizon_elevation |-> horizon_elevation],
                       err |-> r.err, ret |-> r.ret, did |-> r.did]
    /\ UNCHANGED frames

(* ov.date = d: the caller moves the observer's clock *)
SetDate(d) ==
    /\ last.op = NoCall.op /\ ov # None
    /\ ov' = [ov EXCEPT !.date = d]
    /\ last' = [op |-> "set_date", arg |-> d, err |-> "none", ret |-> None, did |-> None]
    /\ UNCHANGED gsm
    /\ UNCHANGED frames

(* g = GlobalSkyModel(...): the name is bound when the constructor returns *)
NewGlobalSkyModel(freq_unit, basemap, interpolation, include_cmb) ==
    /\ last.op = NoCall.op
    /\ \E r \in {GlobalSkyModel(freq_unit, basemap, interpolation, include_cmb)} :
           /\ gsm' = IF r.err = "none" THEN r.g ELSE gsm
           /\ ov' = IF r.err = "none" THEN None ELSE ov
           /\ last' = [op |-> "GlobalSkyModel",
                       arg |-> [freq_unit |-> freq_unit, basemap |-> basemap,
                                interpolation |-> interpolation,
                                include_cmb |-> include_cmb],
                       err |-> r.err, ret |-> r.g, did |-> [loaded |-> r.loaded]]
    /\ UNCHANGED frames

(* g = GlobalSkyModel16(...) *)
NewGlobalSkyModel16(freq_unit, data_unit, resolution, interpolation, include_cmb) ==
    /\ last.op = NoCall.op
    /\ \E r \in {GlobalSkyModel16(freq_unit, data_unit, resolution, interpolation,
                                   include_cmb)} :
           /\ gsm' = IF r.err = "none" THEN r.g ELSE gsm
           /\ ov' = IF r.err = "none" THEN None ELSE ov
           /\ last' = [op |-> "GlobalSkyModel16",
                       arg |-> [freq_unit |-> freq_unit, data_unit |-> data_unit,
                                resolution |-> resolution,
                                interpolation |-> interpolation,
                                include_cmb |-> include_cmb],
                       err |-> r.err, ret |-> r.g, did |-> [loaded |-> r.loaded]]
    /\ UNCHANGED frames

(* g = BaseSkyModel("TEST_GSM", filepath, freq_unit="MHz", basemap="haslam",
   data_unit="K") *)
NewBaseSkyModel(filepath) ==
    /\ last.op = NoCall.op
    /\ \E r \in {BaseSkyModel__init__("TEST_GSM", filepath, "MHz", "K", "haslam")} :
           /\ gsm' = IF r.err = "none" THEN r.g ELSE gsm
           /\ ov' = IF r.err = "none" THEN None ELSE ov
           /\ last' = [op |-> "BaseSkyModel", arg |-> [filepath |-> filepath],
                       err |-> r.err, ret |-> r.g, did |-> None]
    /\ UNCHANGED frames

(* g = init_gsm(gsm_name, freq_unit=..., include_cmb=...) *)
InitGsm(gsm_name, freq_unit, include_cmb) ==
    /\ last.op = NoCall.op
    /\ \E r \in {init_gsm(gsm_name, freq_unit, include_cmb)} :
           /\ gsm' = IF r.err = "none" THEN r.g ELSE gsm
           /\ ov' = IF r.err = "none" THEN None ELSE ov
           /\ last' = [op |-> "init_gsm",
                       arg |-> [gsm_name |-> gsm_name, freq_unit |-> freq_unit,
                                include_cmb |-> include_cmb],
                       err |-> r.err, ret |-> r.g, did |-> [loaded |-> r.loaded]]
    /\ UNCHANGED frames

(* ov = init_observer(gsm_name) *)
InitObserver(gsm_name) ==
    /\ last.op = NoCall.op
    /\ \E r \in {init_observer(gsm_name, 0)} :
           /\ gsm' = IF r.err = "none" THEN r.obs.gsm ELSE gsm
           /\ ov' = IF r.err = "none" THEN r.obs.ov ELSE ov
           /\ last' = [op |-> "init_observer", arg |-> [gsm_name |-> gsm_name],
                       err |-> r.err, ret |-> r.obs, did |-> None]
    /\ UNCHANGED frames

(* T = g.get_sky_temperature(coords, freqs, include_cmb) *)
GetSkyTemperature(coords, freqs, include_cmb) ==
    /\ last.op = NoCall.op /\ ov = None
    /\ \E r \in {get_sky_temperature(gsm, coords, freqs, include_cmb)} :
           /\ gsm' = r.g
           /\ last' = [op |-> "get_sky_temperature",
                       arg |-> [coords |-> coords, freqs |-> freqs,
                                include_cmb |-> include_cmb],
                       err |-> r.err, ret |-> r.ret, did |-> None]
    /\ UNCHANGED ov
    /\ UNCHANGED frames

(* sc = hpix2sky(nside, pix) *)
Hpix2Sky(nside, pix) ==
    /\ last.op = NoCall.op
    /\ \E sc \in hpix2sky(nside, pix) :
           last' = [op |-> "hpix2sky", arg |-> [nside |-> nside, pix |-> pix],
                    err |-> "none", ret |-> sc, did |-> None]
    /\ UNCHANGED <<gsm, ov>>
    /\ UNCHANGED frames

(* pix_roundtrip = sky2hpix(nside, sc), on the coordinates just returned *)
Sky2Hpix ==
    /\ last.op = "hpix2sky"
    /\ last' = [op |-> "sky2hpix", arg |-> [nside |-> last.arg.nside, sc |-> last.ret],
                err |-> "none", ret |-> sky2hpix(last.arg.nside, last.ret),
                did |-> [pix |-> last.arg.pix]]
    /\ UNCHANGED <<gsm, ov>>
    /\ UNCHANGED frames

(***************************************************************************)
(* Two callers on one observer, BaseObserver.generate followed statement   *)
(* group by statement group.  Nothing in the class locks, so the groups of *)
(* the two calls interleave freely.                                        *)
(***************************************************************************)
Callers == 1..2

IdleFrame ==
    [pc |-> "idle", obstime |-> Omitted, horizon_elevation |-> Omitted, sky |-> None,
     time_has_changed |-> FALSE, horizon_has_changed |-> FALSE, zen |-> 0]

(* a GSMObserver shared by two callers, neither inside a call *)
InitRace ==
    /\ last = NoCall
    /\ gsm = BaseObserver("GSM08", 0).gsm
    /\ ov = BaseObserver("GSM08", 0).ov
    /\ frames = [c \in Callers |-> IdleFrame]

(* ov.generate(obstime=..., horizon_elevation=...) is entered; freq is None *)
RaceCall(c, obstime, horizon_elevation) ==
    /\ frames[c].pc = "idle"
    /\ frames' = [frames EXCEPT ![c] = [IdleFrame EXCEPT !.pc = "time",
                                                         !.obstime = obstime,
                                                         !.horizon_elevation = horizon_elevation]]
    /\ UNCHANGED <<gsm, ov, last>>

(* sky = self.gsm.generated_map_data and the time check *)
RaceTime(c) ==
    /\ frames[c].pc = "time"
    /\ \E changed \in {~(frames[c].obstime = Omitted \/ frames[c].obstime[1] = ov._time)} :
          /\ ov' = IF changed
                   THEN [ov EXCEPT !._time = frames[c].obstime[1],
                                   !.date = frames[c].obstime[1]]
                   ELSE ov
          /\ frames' = [frames EXCEPT ![c].pc = "horizon",
                                      ![c].sky = gsm.generated_map_data,
                                      ![c].time_has_changed = changed]
    /\ UNCHANGED <<gsm, last>>

(* the two horizon blocks; a negative elevation ends the call *)
RaceHorizon(c) ==
    /\ frames[c].pc = "horizon"
    /\ \E c1 \in {HorizonCheck(ov._horizon_elevation,
                               HorizonArg(frames[c].horizon_elevation))} :
       \E c2 \in {HorizonCheck(c1.stored, HorizonArg(Given(c1.stored)))} :
          IF c1.stored < 0
          THEN /\ ov' = [ov EXCEPT !._horizon_elevation = c1.stored]
               /\ frames' = [frames EXCEPT ![c] = IdleFrame]
          ELSE /\ ov' = [ov EXCEPT !._horizon_elevation = c2.stored]
               /\ frames' = [frames EXCEPT ![c].pc = "decide",
                                           ![c].horizon_has_changed =
                                               c2.horizon_has_changed]
    /\ UNCHANGED <<gsm, last>>

(* if time_has_changed or self.observed_sky is None or horizon_has_changed *)
RaceDecide(c) ==
    /\ frames[c].pc = "decide"
    /\ frames' = [frames EXCEPT ![c].pc =
                     IF NeedRecompute(frames[c].time_has_changed, ov.observed_sky,
                                      frames[c].horizon_has_changed)
                     THEN "mask" ELSE "read"]
    /\ UNCHANGED <<gsm, ov, last>>

(* the zenith of self.date, and self._mask = mask *)
RaceMask(c) ==
    /\ frames[c].pc = "mask"
    /\ ov' = [ov EXCEPT !._mask = HorizonMask(ZenithPix(ov.date), ov._horizon_elevation)]
    /\ frames' = [frames EXCEPT ![c].pc = "pix0", ![c].zen = ZenithPix(ov.date)]
    /\ UNCHANGED <<gsm, last>>

(* self._pix0 = pix0, rotated by the ra_zen, dec_zen the call holds *)
RacePix0(c) ==
    /\ frames[c].pc = "pix0"
    /\ ov' = [ov EXCEPT !._pix0 = RemapArray(frames[c].zen),
                        !._observed_ra = ObservedRa(RemapArray(frames[c].zen))]
    /\ frames' = [frames EXCEPT ![c].pc = "read"]
    /\ UNCHANGED <<gsm, last>>

(* sky[self._pix0], self._mask[self._pix0], self.observed_sky = ...; return *)
RaceRead(c) ==
    /\ frames[c].pc = "read"
    /\ ov' = [ov EXCEPT !.observed_sky = MaskedSky(frames[c].sky, ov._pix0, ov._mask)]
    /\ frames' = [frames EXCEPT ![c] = IdleFrame]
    /\ UNCHANGED <<gsm, last>>

(* the caller goes on to its next statement *)
Continue ==
    /\ last.op # NoCall.op
    /\ last' = NoCall
    /\ UNCHANGED <<gsm, ov>>
    /\ UNCHANGED frames

NextSky ==
    \/ \E freqs \in FreqInputs : SkyGenerate(freqs)
    \/ \E b \in BasemapArgs : SetBasemap(b)
    \/ \E u \in Units : SetFreqUnit(u)
    \/ \E m \in FamilyArgs : SetInterpolationMethod(m)
    \/ \E sc \in CoordArgs, f \in TempFreqArgs, c \in BOOLEAN : GetSkyTemperature(sc, f, c)
    \/ Continue

NextRace ==
    \/ \E c \in Callers, t \in Opt(Times), h \in Opt({1}) : RaceCall(c, t, h)
    \/ \E c \in Callers : RaceTime(c)
    \/ \E c \in Callers : RaceHorizon(c)
    \/ \E c \in Callers : RaceDecide(c)
    \/ \E c \in Callers : RaceMask(c)
    \/ \E c \in Callers : RacePix0(c)
    \/ \E c \in Callers : RaceRead(c)

NextPix ==
    \/ \E nside \in Nsides : \E pix \in BeltPixels(nside) : Hpix2Sky(nside, pix)
    \/ Sky2Hpix
    \/ Continue

NextNew ==
    \/ \E u \in Units, b \in BasemapArgs, i \in FamilyArgs, c \in BOOLEAN :
           NewGlobalSkyModel(u, b, i, c)
    \/ \E u \in Units, d \in DataUnitArgs, r \in ResolutionArgs, i \in FamilyArgs,
           c \in BOOLEAN : NewGlobalSkyModel16(u, d, r, i, c)
    \/ \E f \in FileKinds : NewBaseSkyModel(f)
    \/ \E n \in NameArgs, u \in Units, c \in BOOLEAN : InitGsm(n, u, c)
    \/ \E n \in NameArgs : InitObserver(n)
    \/ Continue

NextObs ==
    \/ \E f \in Opt(ObsFreqVals), t \in Opt(Times), h \in HorizonInputs : ObsGenerate(f, t, h)
    \/ \E d \in Times : SetDate(d)
    \/ Continue

SpecSky == InitSky /\ [][NextSky]_vars

SpecNew == InitNew /\ [][NextNew]_vars

SpecPix == InitNew /\ [][NextPix]_vars

SpecRace == InitRace /\ [][NextRace]_vars

SpecObs == InitObs /\ [][NextObs]_vars

-----------------------------------------------------------------------------
(* component_data.download_from_url_list, followed one download at a time.
   A URL is a string, held as its letters; what the caller passes is a str
   or a list of str, told apart as isinstance does. *)

Urls == {<<"d", "c">>, <<"z">>}
Str(u) == [type |-> "str", value |-> u]
List(us) == [type |-> "list", value |-> us]
UrlListArgs == {Str(u) : u \in Urls} \cup {List(us) : us \in SeqsUpTo(Urls, MaxUrls)}

(* what one download_file call ends in: the path, an Exception (URLError,
   timeout, ...), or an exception that is not an Exception *)
Outcomes == {"ok", "Exception", "KeyboardInterrupt"}

(* download_file(url, cache=True): the path of the cached copy *)
download_file(url) == <<"astropy", "cache">> \o url

(* the sequence the for loop walks when a str is not wrapped: its letters *)
UrlsToTry_lettersOfStr(url_list) ==
    IF url_list.type = "str"
    THEN [i \in 1..Len(url_list.value) |-> <<url_list.value[i]>>]
    ELSE url_list.value

(* if isinstance(url_list, str): url_list = [url_list] *)
UrlsToTry(url_list) ==
    IF url_list.type = "str" THEN <<url_list.value>> ELSE url_list.value

InitFetch ==
    /\ last = NoCall
    /\ gsm = None
    /\ ov = None
    /\ frames = NoFrames

(* the call: lines 50-51, up to the head of the loop *)
FetchCall(url_list) ==
    /\ last.op = NoCall.op /\ frames = NoFrames
    /\ frames' = <<[url_list |-> url_list, urls |-> UrlsToTry(url_list), i |-> 1,
                    tried |-> <<>>]>>
    /\ UNCHANGED <<gsm, ov, last>>

FetchEnded(f, err, ret, tried) ==
    [op |-> "download_from_url_list", arg |-> f.url_list, err |-> err, ret |-> ret,
     did |-> [tried |-> tried]]

(* one turn of the loop, lines 53-57: download_file returns and the function
   returns its path, or raises an Exception, which is printed and the loop
   goes on, or raises something except Exception does not catch *)
FetchTry(outcome) ==
    /\ frames # NoFrames
    /\ frames[1].i <= Len(frames[1].urls)
    /\ \E f \in {frames[1]} :
        \E url \in {f.urls[f.i]} :
        \E tried \in {Append(f.tried, [url |-> url, outcome |-> outcome])} :
           CASE outcome = "ok" ->
                    /\ last' = FetchEnded(f, "none", download_file(url), tried)
                    /\ frames' = NoFrames
             [] outcome = "Exception" ->
                    /\ frames' = <<[f EXCEPT !.i = @ + 1, !.tried = tried]>>
                    /\ UNCHANGED last
             [] OTHER ->
                    /\ last' = FetchEnded(f, outcome, None, tried)
                    /\ frames' = NoFrames
    /\ UNCHANGED <<gsm, ov>>

(* the loop has run out, line 58 *)
FetchExhausted ==
    /\ frames # NoFrames
    /\ frames[1].i > Len(frames[1].urls)
    /\ last' = FetchEnded(frames[1], "RuntimeError", None, frames[1].tried)
    /\ frames' = NoFrames
    /\ UNCHANGED <<gsm, ov>>

NextFetch ==
    \/ \E url_list \in UrlListArgs : FetchCall(url_list)
    \/ \E outcome \in Outcomes : FetchTry(outcome)
    \/ FetchExhausted
    \/ Continue

SpecFetch == InitFetch /\ [][NextFetch]_vars

-----------------------------------------------------------------------------
(* Vocabulary of the properties *)

IsObsCall(l) == l.op = "observer_generate"
ObsReturned(l) == IsObsCall(l) /\ l.err = "none"

(* the mask of an observed sky whose remap array and mask were computed for
   the same zenith, with horizon elevation h *)
ObservedMaskFor(h) == [p \in Pixels |-> ~(AngDist(p, 0) <= Quarter - h)]

(* the cached mask is one computed for horizon elevation h *)
MaskComputedFor(mask, h) == \E d \in Times : mask = HorizonMask(ZenithPix(d), h)

(* every pixel of an observed sky holds the sky-model value of native
   frequency f *)
SkyOfFrequency(observed_sky, f) == observed_sky.row.freq = f

-----------------------------------------------------------------------------
(* C1: when generate is called on an observer that already holds an observed
   sky, with the time unchanged and a horizon elevation different from the
   one the cached mask was computed for, the returned observed sky carries
   the mask of the new horizon elevation. *)
C1_MaskFollowsHorizon ==
    [][ ( /\ ObsReturned(last')
          /\ ov.observed_sky # None
          /\ ~last'.did.time_has_changed
          /\ \E h \in HorVals : h # ov'._horizon_elevation /\ MaskComputedFor(ov._mask, h) )
        => ov'.observed_sky.mask = ObservedMaskFor(ov'._horizon_elevation) ]_vars

(* C2: a generate call with an obstime different from the stored time stores
   obstime as time and date, and recomputes both the remap array and the
   mask for the zenith at that time before building the observed sky. *)
C2_TimeChangeRecomputes ==
    [][ ( /\ ObsReturned(last')
          /\ last'.arg.obstime # Omitted
          /\ last'.arg.obstime[1] # ov._time )
        => LET t == last'.arg.obstime[1]
               zen == ZenithPix(t)
           IN  /\ ov'._time = t /\ ov'.date = t
               /\ last'.did.recomputed
               /\ ov'._pix0 = RemapArray(zen)
               /\ ov'._mask = HorizonMask(zen, ov'._horizon_elevation)
               /\ ov'.observed_sky = MaskedSky(gsm'.generated_map_data, RemapArray(zen),
                                               HorizonMask(zen, ov'._horizon_elevation)) ]_vars

C2_Witness ==
    /\ ObsReturned(last)
    /\ last.did.time_has_changed /\ last.did.recomputed
    /\ last.arg.obstime = Given(1) /\ ov._time = 1 /\ ov.date = 1
    /\ ov._pix0 = RemapArray(ZenithPix(1))

(* the calls C3 speaks of: a returning generate call on an observer that
   already holds an observed sky, at the stored time and the stored horizon
   elevation *)
C3_SameTimeAndHorizon ==
    /\ ObsReturned(last')
    /\ ov.observed_sky # None
    /\ (last'.arg.obstime = Omitted \/ last'.arg.obstime[1] = ov._time)
    /\ HorizonArg(last'.arg.horizon_elevation) = ov._horizon_elevation

C3_CacheKept ==
    /\ ~last'.did.recomputed
    /\ ov'._pix0 = ov._pix0
    /\ ov'._mask = ov._mask

(* C3 as stated: on such calls the rotation and mask are not recomputed, the
   cached remap array and mask are unchanged, and the returned observed sky
   holds the sky-model values of the frequency requested in the call. *)
C3_Original ==
    [][ C3_SameTimeAndHorizon
        => /\ C3_CacheKept
           /\ last'.arg.freq # Omitted
                => SkyOfFrequency(ov'.observed_sky, ToMHz(last'.arg.freq[1], gsm'.freq_unit)) ]_vars

(* C3 amended: on such calls the rotation and mask are not recomputed, the
   cached remap array and mask are unchanged, and the returned observed sky
   holds the sky-model values of the observer's stored frequency: the
   requested frequency when that is not np.isclose to the frequency stored
   before the call, and otherwise (or when freq is omitted) the frequency
   stored before the call. *)
C3_CacheReusedAcrossFrequencies ==
    [][ C3_SameTimeAndHorizon
        => /\ C3_CacheKept
           /\ SkyOfFrequency(ov'.observed_sky, ToMHz(ov'._freq, gsm'.freq_unit))
           /\ ov'._freq = IF last'.arg.freq # Omitted /\ ~isclose(last'.arg.freq[1], ov._freq)
                          THEN last'.arg.freq[1] ELSE ov._freq ]_vars

C3_Witness ==
    /\ ObsReturned(last)
    /\ last.did.regenerated /\ ~last.did.recomputed /\ ~last.did.time_has_changed
    /\ last.arg.freq = Given(50) /\ ov._freq = 50
    /\ SkyOfFrequency(ov.observed_sky, ToMHz(50, "MHz"))

(* C4: generate with a negative horizon elevation raises ValueError before
   any other side effect: the sky model and every field of the observer are
   the same after the call as before it. *)
C4_NegativeHorizonNoSideEffect ==
    [][ ( /\ IsObsCall(last')
          /\ last'.arg.horizon_elevation # Omitted
          /\ last'.arg.horizon_elevation[1] < 0 )
        => /\ last'.err = "ValueError"
           /\ gsm' = gsm
           /\ ov' = ov ]_vars

-----------------------------------------------------------------------------
(* the frequency bands as the documentation states them, in MHz *)
BandFloorMHz == 10
BandCeilMHz(kind) ==
    CASE kind = "GSM08" -> 94 * 1000
      [] kind = "GSM16" -> 5 * 1000 * 1000
      [] kind = "LFSM"  -> 408

(* value v given in unit lies outside the band of the model *)
OutsideBand(kind, v, unit) ==
    CASE unit = "Hz"  -> v < BandFloorMHz * 1000000 \/ v \div 1000000 > BandCeilMHz(kind)
                         \/ (v \div 1000000 = BandCeilMHz(kind) /\ v % 1000000 # 0)
      [] unit = "MHz" -> v < BandFloorMHz \/ v > BandCeilMHz(kind)
      [] unit = "GHz" -> v * 1000 < BandFloorMHz \/ v * 1000 > BandCeilMHz(kind)

SomeOutside(kind, vals, unit) == \E i \in 1..Len(vals) : OutsideBand(kind, vals[i], unit)
SomeInside(kind, vals, unit) == \E i \in 1..Len(vals) : ~OutsideBand(kind, vals[i], unit)

(* the stored map and the stored frequencies belong together: one row per
   stored frequency, computed for exactly that frequency *)
MapMatchesFreqs(g) ==
    /\ Len(g.generated_map_data.rows) = Len(g.generated_map_freqs.vals)
    /\ \A i \in 1..Len(g.generated_map_freqs.vals) :
          g.generated_map_data.rows[i].freq
              = ToMHz(g.generated_map_freqs.vals[i], g.generated_map_freqs.unit)

(* C5: a sky-model generate call that fails (its range check, also for a
   sequence only partly out of range) leaves generated_map_data and
   generated_map_freqs as they were; a call that succeeds replaces both
   together, by the returned map and the frequencies of the call. *)
C5_GenerateAllOrNothing ==
    [][ /\ (last'.op = "generate" /\ last'.err # "none")
            => /\ gsm'.generated_map_data = gsm.generated_map_data
               /\ gsm'.generated_map_freqs = gsm.generated_map_freqs
        /\ (last'.op = "generate" /\ last'.err = "none")
            => /\ gsm'.generated_map_data = last'.ret
               /\ gsm'.generated_map_freqs = AsQuantity(last'.arg, gsm.freq_unit)
               /\ MapMatchesFreqs(gsm') ]_vars

C5_Witness ==
    /\ last.op = "generate" /\ last.err = "RuntimeError"
    /\ ~last.arg.scalar
    /\ SomeOutside(gsm.kind, last.arg.vals, gsm.freq_unit)
    /\ SomeInside(gsm.kind, last.arg.vals, gsm.freq_unit)
    /\ gsm.generated_map_data # None
    /\ MapMatchesFreqs(gsm)

(* C6: generate raises RuntimeError exactly when a frequency, converted from
   freq_unit, lies below 10 MHz or above the model's ceiling (GSM08 94 GHz,
   GSM16 5 THz, LFSM 408 MHz); a frequency on a band edge succeeds, and the
   map of a successful call is computed for exactly the frequencies given. *)
C6_RangeErrorExactlyOutsideBand ==
    (last.op = "generate" /\ HasRangeCheck(gsm.kind) /\ Len(last.arg.vals) > 0)
    => /\ last.err = "RuntimeError" <=> SomeOutside(gsm.kind, last.arg.vals, gsm.freq_unit)
       /\ last.err = "none"
            => /\ Len(last.ret.rows) = Len(last.arg.vals)
               /\ \A i \in 1..Len(last.arg.vals) :
                     last.ret.rows[i].freq = ToMHz(last.arg.vals[i], gsm.freq_unit)

(* a call that succeeded with a frequency exactly on the model's ceiling *)
C6_Witness ==
    /\ last.op = "generate" /\ last.err = "none"
    /\ HasRangeCheck(gsm.kind)
    /\ \E i \in 1..Len(last.arg.vals) :
          ToMHz(last.arg.vals[i], gsm.freq_unit) = [mhz |-> BandCeilMHz(gsm.kind), hz |-> 0]

(* the configuration of a GlobalSkyModel as a fresh construction would
   have it *)
FreshModel(g) == GlobalSkyModel(g.freq_unit, g.basemap, g.interpolation_method, g.include_cmb)

(* C7: after set_basemap or set_interpolation_method succeeds on a
   GlobalSkyModel that holds a generated map, the interpolants are those of
   a freshly constructed model with the new configuration and the stored map
   is the one that fresh model generates for the same frequencies. *)
C7_SettersLeaveFreshState ==
    ( /\ last.op \in {"set_basemap", "set_interpolation_method"}
      /\ last.err = "none"
      /\ gsm.generated_map_data # None )
    => /\ FreshModel(gsm).err = "none"
       /\ gsm.interp_comps = FreshModel(gsm).g.interp_comps
       /\ gsm.pca_map_data = FreshModel(gsm).g.pca_map_data
       /\ gsm.generated_map_data
            = Generate(FreshModel(gsm).g, gsm.generated_map_freqs).g.generated_map_data

(* C8: set_basemap with an unknown basis name, and set_interpolation_method
   with a family other than 'cubic' or 'pchip', raise an error in the setter
   and leave the model as it was before the call. *)
C8_InvalidSetterRejected ==
    [][ ( \/ last'.op = "set_basemap" /\ last'.arg \notin Basemaps
          \/ last'.op = "set_interpolation_method" /\ last'.arg \notin Families )
        => /\ last'.err # "none"
           /\ gsm' = gsm ]_vars

(* C9: generate returns shape (pixel_count,) for a scalar frequency and
   (k, pixel_count) for a sequence of k >= 2 frequencies, with pixel_count =
   12 * nside^2 of the model, and the stored map has the returned shape. *)
C9_OutputShape ==
    (last.op = "generate" /\ last.err = "none")
    => /\ last.arg.scalar => last.ret.shape = <<12 * gsm.nside * gsm.nside>>
       /\ (~last.arg.scalar /\ Len(last.arg.vals) >= 2)
            => last.ret.shape = <<Len(last.arg.vals), 12 * gsm.nside * gsm.nside>>
       /\ gsm.generated_map_data.shape = last.ret.shape

C9_Witness ==
    /\ last.op = "generate" /\ last.err = "none"
    /\ ~last.arg.scalar /\ Len(last.arg.vals) >= 2
    /\ last.ret.shape = <<Len(last.arg.vals), 12 * gsm.nside * gsm.nside>>
    /\ gsm.kind = "LFSM"

(* C10: generate called with an explicit length-1 sequence returns an array
   of shape (1, pixel_count), not (pixel_count,). *)
C10_LengthOneSequenceKeepsAxis ==
    (last.op = "generate" /\ last.err = "none" /\ ~last.arg.scalar /\ Len(last.arg.vals) = 1)
    => last.ret.shape = <<1, 12 * gsm.nside * gsm.nside>>

-----------------------------------------------------------------------------
(* two rows that differ at most by the background term *)
SameButOffset(r1, r0) == [r1 EXCEPT !.offset = 0] = [r0 EXCEPT !.offset = 0]

(* the map the model of the state would return for freqs with include_cmb
   set to c, everything else as it is *)
MapWithCmb(c, freqs) == Generate([gsm EXCEPT !.include_cmb = c], freqs).ret

(* C11: for every sky model and every in-band frequency, the map generated
   with include_cmb = True minus the one generated with include_cmb = False,
   same configuration otherwise, is in every pixel the 2.725 K background
   expressed in the output unit (numerically 2.725 for K and TCMB). *)
C11_CmbDifference ==
    (last.op = "generate" /\ last.err = "none")
    => /\ last.ret = MapWithCmb(gsm.include_cmb, last.arg)
       /\ \A i \in 1..Len(last.arg.vals) :
             /\ SameButOffset(MapWithCmb(TRUE, last.arg).rows[i],
                              MapWithCmb(FALSE, last.arg).rows[i])
             /\ MapWithCmb(TRUE, last.arg).rows[i].offset
                  - MapWithCmb(FALSE, last.arg).rows[i].offset = T_CMB
             /\ MapWithCmb(TRUE, last.arg).rows[i].unit = gsm.data_unit

C11_Witness ==
    /\ last.op = "generate" /\ last.err = "none"
    /\ gsm.kind = "LFSM" /\ ~gsm.include_cmb
    /\ last.ret.rows[1].offset = 0 - T_CMB
    /\ MapWithCmb(TRUE, last.arg).rows[1].offset = 0

-----------------------------------------------------------------------------
(* the horizon argument of a call is absent or not negative *)
HorizonArgValid(arg) == arg.horizon_elevation = Omitted \/ arg.horizon_elevation[1] >= 0

(* the frequency argument of a call is absent or inside the band of the
   observer's sky model (the Haslam model has no band) *)
FreqArgValid(kind, arg) ==
    \/ arg.freq = Omitted
    \/ ~HasRangeCheck(kind)
    \/ ~OutsideBand(kind, arg.freq[1], "MHz")

(* C12: an observer generate call without freq builds the observed sky from
   the map of the stored frequency (100 from construction on) and leaves the
   sky model alone; a call without obstime leaves the stored time as it is;
   and such calls, their other arguments being valid, return an observed
   sky. *)
C12_OmittedArgsReuse ==
    [][ IsObsCall(last')
        => /\ (last'.arg.freq = Omitted /\ HorizonArgValid(last'.arg))
                => /\ ObsReturned(last') /\ last'.ret = ReturnsObservedSky
                   /\ ~last'.did.regenerated
                   /\ gsm' = gsm
                   /\ ov'._freq = ov._freq
                   /\ ov'.observed_sky.row = gsm.generated_map_data.rows[1]
                   /\ SkyOfFrequency(ov'.observed_sky, ToMHz(ov._freq, "MHz"))
           /\ last'.arg.obstime = Omitted
                => /\ ov'._time = ov._time
                   /\ ~last'.did.time_has_changed
                   /\ (HorizonArgValid(last'.arg) /\ FreqArgValid(gsm.kind, last'.arg))
                        => ObsReturned(last') /\ last'.ret = ReturnsObservedSky ]_vars

(* a call without any argument on an observer that was never given a
   frequency *)
C12_Witness ==
    /\ ObsReturned(last)
    /\ last.arg.freq = Omitted /\ last.arg.obstime = Omitted
    /\ ov._freq = OBS_DEFAULT_FREQ
    /\ SkyOfFrequency(ov.observed_sky, ToMHz(OBS_DEFAULT_FREQ, "MHz"))
    /\ ov._time = 0

-----------------------------------------------------------------------------
(* C13: a horizon elevation given as a string is read as degrees, one given
   as a bare number as radians: a call that passes an angle as a string
   ends, from the same observer state, as the call that passes the same
   angle as a bare number does, with the same mask and the same values in
   the observed sky; unless the sky model refused the frequency, the stored
   elevation is that angle. *)
C13_HorizonConventionsAgree ==
    [][ (IsObsCall(last') /\ IsString(last'.arg.horizon_elevation))
        => \A k \in HorVals :
              k * DegPerStep = last'.arg.horizon_elevation[1]
              => /\ ObserverGenerate(gsm, ov, last'.arg.freq, last'.arg.obstime,
                                     Given(k)).err = last'.err
                 /\ ObserverGenerate(gsm, ov, last'.arg.freq, last'.arg.obstime,
                                     Given(k)).ov = ov'
                 /\ last'.err # "RuntimeError" => ov'._horizon_elevation = k ]_vars

(* a first call with the string of one ring step in degrees: the mask is
   the one of a horizon one step up *)
C13_Witness ==
    /\ ObsReturned(last)
    /\ last.arg.horizon_elevation = InDegrees(DegPerStep)
    /\ last.did.recomputed
    /\ ov._horizon_elevation = 1
    /\ ov._mask = HorizonMask(ZenithPix(ov.date), 1)
    /\ ov.observed_sky.mask = ObservedMaskFor(1)

(***************************************************************************)
(* C14: GlobalSkyModel and GlobalSkyModel16 given an interpolation other   *)
(* than 'cubic' or 'pchip' raise an error at construction; such a value is *)
(* never accepted.                                                         *)
(***************************************************************************)
C14_InterpolationValidated ==
    (/\ last.op \in {"GlobalSkyModel", "GlobalSkyModel16"}
     /\ last.arg.interpolation \notin Families)
    => (last.err # "none" /\ last.ret = None)

(***************************************************************************)
(* C15: GlobalSkyModel raises RuntimeError for a basemap outside '5deg',   *)
(* 'wmap', 'haslam'; GlobalSkyModel16 raises RuntimeError for a data_unit  *)
(* outside 'MJysr', 'TCMB', 'TRJ' or a resolution that, lower-cased, is    *)
(* none of hi/high/h/low/lo/l (and for no resolution that is one of them   *)
(* when the data_unit is valid).  The error comes before any component     *)
(* data is loaded, no object results, and the caller's names keep what     *)
(* they held.                                                              *)
(***************************************************************************)
ResolutionTags ==
    {hi, <<"h", "i", "g", "h">>, <<"h">>, low, <<"l", "o">>, <<"l">>}

BadArgument ==
    \/ last.op = "GlobalSkyModel" /\ last.arg.basemap \notin Basemaps
    \/ /\ last.op = "GlobalSkyModel16"
       /\ \/ last.arg.data_unit \notin DataUnits16
          \/ \A t \in ResolutionTags :
                \/ Len(t) # Len(last.arg.resolution)
                \/ \E i \in 1..Len(t) : LowerChar(last.arg.resolution[i]) # t[i]

C15_BadArgumentRejected ==
    [][/\ BadArgument' => /\ last'.err = "RuntimeError"
                          /\ last'.ret = None
                          /\ ~last'.did.loaded
                          /\ gsm' = gsm
                          /\ ov' = ov
       /\ (last'.op = "GlobalSkyModel16" /\ ~BadArgument')
          => (last'.err = "none" /\ last'.ret.kind = "GSM16" /\ last'.did.loaded)]_vars

C15_Witness ==
    /\ last.op = "GlobalSkyModel16"
    /\ last.arg.resolution = <<"o", "h", "_", "h", "a", "i">>
    /\ last.arg.data_unit \in DataUnits16
    /\ last.err = "RuntimeError"
    /\ gsm # None
    /\ gsm.kind = "GSM16"
    /\ gsm.resolution = "hi"

(***************************************************************************)
(* C16: BaseSkyModel given a path that does not exist, or a file that is   *)
(* neither HDF5 nor FITS, raises RuntimeError; given an HDF5 file it       *)
(* succeeds with generated_map_data and generated_map_freqs both None.     *)
(***************************************************************************)
C16_UnreadablePathIsRuntimeError ==
    last.op = "BaseSkyModel"
    => /\ last.arg.filepath \in {"missing", "other"} => last.err = "RuntimeError"
       /\ last.arg.filepath = "hdf5"
          => /\ last.err = "none"
             /\ last.ret.generated_map_data = None
             /\ last.ret.generated_map_freqs = None

(***************************************************************************)
(* C18: init_gsm(name) and init_observer(name) lower-case and strip the    *)
(* name; 'gsm' and 'gsm08' give the GSM08 class, 'gsm16' GSM16, 'lfsm'     *)
(* LFSM, 'haslam' Haslam, with the remaining arguments forwarded; every    *)
(* other name raises ValueError.                                           *)
(***************************************************************************)
C18_FactoryDispatch ==
    /\ last.op = "init_gsm"
       => IF ModelOfName(strip(lower(last.arg.gsm_name))) = NoAttr
          THEN last.err = "ValueError" /\ last.ret = None
          ELSE /\ last.err = "none"
               /\ last.ret.kind = ModelOfName(strip(lower(last.arg.gsm_name)))
               /\ last.ret.freq_unit = last.arg.freq_unit
               /\ last.ret.include_cmb = last.arg.include_cmb
    /\ last.op = "init_observer"
       => IF ModelOfName(strip(lower(last.arg.gsm_name))) = NoAttr
          THEN last.err = "ValueError" /\ last.ret = None
          ELSE /\ last.err = "none"
               /\ last.ret.gsm.kind = ModelOfName(strip(lower(last.arg.gsm_name)))
               /\ last.ret.ov # None

C18_Witness ==
    /\ last.op = "init_gsm"
    /\ last.arg.gsm_name = <<" ", "g", "s", "m", "1", "6", " ">>
    /\ last.err = "none"
    /\ last.ret.kind = "GSM16"
    /\ gsm = last.ret

(***************************************************************************)
(* C17: get_sky_temperature called without freqs changes nothing of the    *)
(* sky model; when a map is stored it returns the stored value of the one  *)
(* pixel the coordinate falls in (one value per row when the stored map    *)
(* is two-dimensional), plus 2.725 exactly when its include_cmb argument   *)
(* is true; when no map is stored it raises.                               *)
(***************************************************************************)
StoredValue(row, coords, include_cmb) ==
    [row |-> row, pix |-> ang2pix(gsm.nside, coords.l, coords.b),
     plus |-> IF include_cmb THEN T_CMB ELSE 0]

C17_LookupIsPure ==
    [][(last'.op = "get_sky_temperature" /\ last'.arg.freqs = <<>>)
       => /\ gsm' = gsm
          /\ IF gsm.generated_map_data = None
             THEN last'.err = "AttributeError"
             ELSE /\ last'.err = "none"
                  /\ IF Len(gsm.generated_map_data.shape) = 2
                     THEN /\ Len(last'.ret.vals) = Len(gsm.generated_map_freqs.vals)
                          /\ \A i \in 1..Len(last'.ret.vals) :
                                last'.ret.vals[i] =
                                    StoredValue(gsm.generated_map_data.rows[i],
                                                last'.arg.coords,
                                                last'.arg.include_cmb)
                     ELSE last'.ret = StoredValue(gsm.generated_map_data.rows[1],
                                                  last'.arg.coords,
                                                  last'.arg.include_cmb)]_vars

C17_Witness ==
    /\ last.op = "get_sky_temperature"
    /\ last.arg.freqs = <<>>
    /\ last.arg.include_cmb
    /\ last.err = "none"
    /\ ~gsm.include_cmb
    /\ Len(gsm.generated_map_data.shape) = 2
    /\ last.ret.vals[2].plus = T_CMB
    /\ last.ret.vals[2].row = gsm.generated_map_data.rows[2]

Visible(o) == {p \in Pixels : ~o.observed_sky.mask[p]}

InDisc(o, p, h) == AngDist(o.observed_sky.pix[p], ZenithPix(o.date)) <= Quarter - h

(* the same call with horizon elevation h instead *)
TwinCall(h) ==
    ObserverGenerate(gsm, ov, last'.arg.freq, last'.arg.obstime, Given(h))

FreshCall ==
    /\ last'.op = "observer_generate"
    /\ last'.err = "none"
    /\ last'.did.recomputed

LowerHorizons ==
    {h \in HorVals : /\ 0 <= h
                     /\ h < ov'._horizon_elevation
                     /\ TwinCall(h).err = "none"
                     /\ TwinCall(h).did.recomputed}

C19_VisibleDisc ==
    [][FreshCall
       => /\ Visible(ov') = {p \in Pixels : InDisc(ov', p, ov'._horizon_elevation)}
          /\ \A h \in LowerHorizons :
                /\ Visible(ov') \subseteq Visible(TwinCall(h).ov)
                /\ (Visible(ov') # Visible(TwinCall(h).ov))
                   <=> \E p \in Pixels :
                          InDisc(ov', p, h) /\ ~InDisc(ov', p, ov'._horizon_elevation)]_vars

(* C19 as stated: the higher horizon always sees strictly less *)
C19_Original ==
    [][FreshCall
       => /\ Visible(ov') = {p \in Pixels : InDisc(ov', p, ov'._horizon_elevation)}
          /\ \A h \in LowerHorizons :
                /\ Visible(ov') \subseteq Visible(TwinCall(h).ov)
                /\ Visible(ov') # Visible(TwinCall(h).ov)]_vars

C19_Witness ==
    /\ last.op = "observer_generate"
    /\ last.err = "none"
    /\ last.did.recomputed
    /\ ov._horizon_elevation = 1
    /\ Cardinality(Visible(ov)) = 3
    /\ Visible(ov) = {p \in Pixels : InDisc(ov, p, 1)}

(***************************************************************************)
(* C21: Observer.generate called with a frequency outside the sky model's  *)
(* band, and not np.isclose to the frequency the observer has stored,      *)
(* raises the model's RuntimeError and leaves the observer as it was:      *)
(* stored frequency, time, date, horizon elevation, remap array, mask and  *)
(* observed_sky.                                                           *)
(***************************************************************************)
OutOfBand(g, freq) ==
    /\ g.kind \in {"GSM08", "GSM16", "LFSM"}
    /\ \/ ToMHz(freq, g.freq_unit).mhz < FLOOR_MHZ
       \/ ToMHz(freq, g.freq_unit).mhz > CeilMHz(g.kind)
       \/ /\ ToMHz(freq, g.freq_unit).mhz = CeilMHz(g.kind)
          /\ ToMHz(freq, g.freq_unit).hz > 0

OutOfBandCall ==
    /\ last'.op = "observer_generate"
    /\ last'.arg.freq # Omitted
    /\ OutOfBand(gsm, last'.arg.freq[1])

C21_RangeErrorLeavesObserver ==
    [][(OutOfBandCall /\ ~isclose(last'.arg.freq[1], ov._freq))
       => (last'.err = "RuntimeError" /\ ov' = ov)]_vars

(* C21 as stated: every out-of-band frequency raises *)
C21_Original ==
    [][OutOfBandCall => (last'.err = "RuntimeError" /\ ov' = ov)]_vars

C21_Witness ==
    /\ last.op = "observer_generate"
    /\ last.arg.freq = Given(CEIL_GSM16_GHZ * MHZ_PER_GHZ + 1)
    /\ last.arg.obstime = Given(1)
    /\ last.arg.horizon_elevation = Given(1)
    /\ last.err = "RuntimeError"
    /\ ov._freq = 50
    /\ ov._time = 0
    /\ ov._horizon_elevation = 0
    /\ ov.observed_sky # None

(***************************************************************************)
(* C22: a generate call without obstime, made after the caller assigned    *)
(* the observer's date, returns an observed sky rotated for the zenith at  *)
(* the observer's date at the time of the call, not for an earlier date.   *)
(* An assigned date shows as a date that differs from the stored time.     *)
(***************************************************************************)
C22_AssignedDateIsObserved ==
    [][(ObsReturned(last') /\ last'.arg.obstime = Omitted /\ ov.date # ov._time)
       => ov'.observed_sky.pix = RemapArray(ZenithPix(ov.date))]_vars

(***************************************************************************)
(* C23: the cached remap array and the cached mask are always a pair: both *)
(* unset or both set, and when set both computed for one zenith and one    *)
(* horizon elevation; they change only in a call that recomputes; an       *)
(* observed sky is only held when both are set, and every returning        *)
(* generate call leaves an observed sky built from the pair.               *)
(***************************************************************************)
PairOf(d, h) ==
    [_pix0 |-> [p \in Pixels |-> (p + ZenithPix(d)) % NPix],
     _mask |-> [q \in Pixels |-> ~(AngDist(q, ZenithPix(d)) <= Quarter - h)]]

CachePair(o) ==
    \/ o._pix0 = None /\ o._mask = None /\ o.observed_sky = None
    \/ /\ o._pix0 # None /\ o._mask # None
       /\ \E d \in Times, h \in HorVals :
             o._pix0 = PairOf(d, h)._pix0 /\ o._mask = PairOf(d, h)._mask

C23_CachePairConsistent ==
    [][ov # None
       => /\ CachePair(ov')
          /\ (ov'._pix0 # ov._pix0 \/ ov'._mask # ov._mask)
             => (IsObsCall(last') /\ last'.did.recomputed)
          /\ ObsReturned(last')
             => /\ ov'.observed_sky # None
                /\ ov'.observed_sky.pix = ov'._pix0
                /\ \A p \in Pixels :
                      ov'.observed_sky.mask[p] = ov'._mask[ov'._pix0[p]]]_vars

C23_Witness ==
    /\ ObsReturned(last)
    /\ last.did.recomputed
    /\ ov.date = 1
    /\ ov._horizon_elevation = 1
    /\ ov._pix0 = PairOf(1, 1)._pix0
    /\ ov._mask = PairOf(1, 1)._mask

(***************************************************************************)
(* C24: with two generate calls interleaving on one observer, each half of *)
(* the cache is always whole (the remap array of one zenith, the mask of   *)
(* one zenith and horizon elevation) but the two halves can belong to      *)
(* different computations, and a call can build its observed sky from      *)
(* such a pair: the torn pair is reached (C24_Witness).                    *)
(***************************************************************************)
RemapOf(d) == [p \in Pixels |-> (p + ZenithPix(d)) % NPix]

MaskOf(d, h) == [q \in Pixels |-> ~(AngDist(q, ZenithPix(d)) <= Quarter - h)]

(* the mask an observed sky shows when remap and mask are for zeniths d, e *)
ShownMask(d, e, h) == [p \in Pixels |-> MaskOf(e, h)[RemapOf(d)[p]]]

C24_HalvesAreWhole ==
    /\ ov._pix0 # None => \E d \in Times : ov._pix0 = RemapOf(d)
    /\ ov._mask # None => \E e \in Times, h \in HorVals : ov._mask = MaskOf(e, h)
    /\ ov.observed_sky # None
       => \E d \in Times, e \in Times, h \in HorVals :
             /\ ov.observed_sky.pix = RemapOf(d)
             /\ ov.observed_sky.mask = ShownMask(d, e, h)

C24_Witness ==
    /\ ov.observed_sky # None
    /\ ov.observed_sky.pix = RemapOf(0)
    /\ ov.observed_sky.mask = ShownMask(0, 1, 0)
    /\ ov.observed_sky.mask # ShownMask(0, 0, 0)
    /\ ov._mask = MaskOf(1, 0)
    /\ ov._pix0 = RemapOf(0)
    /\ \E c \in Callers : frames[c].pc = "pix0" /\ frames[c].zen = ZenithPix(1)

(***************************************************************************)
(* C25: generate never modifies the loaded basis maps or the spectral      *)
(* table: across every call that runs generate they are the arrays the     *)
(* model held before the call, and they are arrays a constructor loads.    *)
(***************************************************************************)
LoadedArrays(g) ==
    <<g.pca_map_data, g.map_ni, g.spec_nf, g.pca_map, g.pca_components, g.data>>

C25_GenerateKeepsLoadedArrays ==
    [][last'.op \in {"generate", "get_sky_temperature"}
       => /\ LoadedArrays(gsm') = LoadedArrays(gsm)
          /\ \E m \in SkyModels : LoadedArrays(gsm') = LoadedArrays(m)]_vars

C25_Witness ==
    /\ last.op = "generate"
    /\ last.err = "none"
    /\ gsm.kind = "GSM16"
    /\ gsm.include_cmb
    /\ gsm.data_unit = "TRJ"
    /\ Len(last.ret.shape) = 1
    /\ gsm.map_ni = "lowres_maps"
    /\ gsm.spec_nf = "spectra"

(***************************************************************************)
(* C26: for a fixed configuration the map of a frequency depends on that   *)
(* frequency alone: row i of generate([f1..fk]) is the map generate(fi)    *)
(* gives by itself, and generate(F) returns what it returns on a model     *)
(* that holds nothing of earlier generate calls.                           *)
(***************************************************************************)
(* the model without what earlier generate calls left on it *)
BeforeAnyGenerate(g) ==
    [g EXCEPT !.generated_map_data = None, !.generated_map_freqs = None,
              !.interp_comps = IF g.kind = "GSM16" THEN NoAttr ELSE @]

C26_MapDependsOnFrequencyOnly ==
    [][(last'.op = "generate" /\ last'.err = "none")
       => /\ \A i \in 1..Len(last'.arg.vals) :
                 \E one \in {Generate(BeforeAnyGenerate(gsm), Scalar(last'.arg.vals[i]))} :
                     /\ one.err = "none"
                     /\ last'.ret.rows[i] = one.ret.rows[1]
          /\ last'.ret = Generate(BeforeAnyGenerate(gsm), last'.arg).ret]_vars

C26_Witness ==
    /\ last.op = "generate"
    /\ last.err = "none"
    /\ Len(last.arg.vals) = 2
    /\ last.arg.vals[1] # last.arg.vals[2]
    /\ last.ret.rows[1] # last.ret.rows[2]
    /\ gsm.kind = "GSM16"
    /\ gsm.interp_comps # NoAttr

(***************************************************************************)
(* C27: after set_freq_unit(u) succeeds on a GlobalSkyModel that holds a   *)
(* map, generated_map_freqs has the numbers it had, tagged with u, and     *)
(* generated_map_data is the map of those numbers read in u; on a model    *)
(* that holds no map the setter generates none.                            *)
(***************************************************************************)
C27_SetFreqUnitRetagsAndRegenerates ==
    [][(last'.op = "set_freq_unit" /\ last'.err = "none")
       => IF gsm.generated_map_freqs # None
          THEN /\ gsm'.generated_map_freqs.vals = gsm.generated_map_freqs.vals
               /\ gsm'.generated_map_freqs.unit = last'.arg
               /\ gsm'.freq_unit = last'.arg
               /\ Len(gsm'.generated_map_data.rows) = Len(gsm.generated_map_freqs.vals)
               /\ \A i \in 1..Len(gsm.generated_map_freqs.vals) :
                      gsm'.generated_map_data.rows[i].freq
                          = ToMHz(gsm.generated_map_freqs.vals[i], last'.arg)
               /\ gsm'.generated_map_data
                      = Generate(gsm', [scalar |-> gsm.generated_map_freqs.scalar,
                                        vals |-> gsm.generated_map_freqs.vals]).ret
          ELSE /\ gsm'.generated_map_freqs = None
               /\ gsm'.generated_map_data = None]_vars

(* MHz to GHz with a map held: 10 MHz becomes 10 GHz *)
C27_Witness ==
    /\ last.op = "set_freq_unit"
    /\ last.err = "none"
    /\ last.arg = "GHz"
    /\ gsm.generated_map_freqs # None
    /\ gsm.generated_map_freqs.vals = <<10>>
    /\ gsm.generated_map_freqs.unit = "GHz"
    /\ gsm.generated_map_data.rows[1].freq = [mhz |-> 10 * MHZ_PER_GHZ, hz |-> 0]

(***************************************************************************)
(* C28: the horizon elevation is not sticky: a generate call that returns  *)
(* and was given no horizon_elevation stores 0 as the observer's horizon   *)
(* elevation and returns a sky masked at horizon elevation 0, whatever the *)
(* previous call used.                                                     *)
(***************************************************************************)
C28_OmittedHorizonIsZero ==
    [][(ObsReturned(last') /\ last'.arg.horizon_elevation = Omitted)
       => /\ ov'._horizon_elevation = 0
          /\ ov'.observed_sky.mask = ObservedMaskFor(0)]_vars

(***************************************************************************)
(* C29: the background of get_sky_temperature is added whatever the        *)
(* model's own include_cmb: on a model with include_cmb = True a call with *)
(* include_cmb = True returns the stored value of the pixel, which is the  *)
(* background-free value plus the model's own background term, plus the    *)
(* bare number 2.725 whatever the data unit.  The model's own term is      *)
(* 2.725 itself when the data unit is K or TCMB, so that the sum is the    *)
(* background-free value plus 2 x 2.725 there; in MJysr and TRJ it is      *)
(* 2.725 K converted to the unit.                                          *)
(***************************************************************************)
WithoutCmb(g) == [g EXCEPT !.include_cmb = FALSE]

(* the values a successful get_sky_temperature returned *)
ReturnedValues(l) ==
    IF "vals" \in DOMAIN l.ret THEN {l.ret.vals[i] : i \in 1..Len(l.ret.vals)} ELSE {l.ret}

CmbLookupOnCmbModel(l, g) ==
    /\ l.op = "get_sky_temperature"
    /\ l.err = "none"
    /\ l.arg.include_cmb
    /\ g.include_cmb

(* v is a stored value, which holds the model's own background term on top
   of the background-free value, plus the bare 2.725 *)
BothBackgrounds(v, g) ==
    /\ v.plus = T_CMB
    /\ \E i \in 1..Len(g.generated_map_data.rows) : v.row = g.generated_map_data.rows[i]
    /\ v.row.offset - RowOf(WithoutCmb(g), v.row.freq).offset = T_CMB

C29_CmbAddedTwice ==
    [][CmbLookupOnCmbModel(last', gsm')
       => \A v \in ReturnedValues(last') :
              /\ BothBackgrounds(v, gsm')
              /\ gsm'.data_unit \in {"K", "TCMB"} <=> CmbScale(v.row) = "1"]_vars

(* the statement as first made: the sum is the background-free value plus
   2 x 2.725 in every data unit *)
C29_Original ==
    [][CmbLookupOnCmbModel(last', gsm')
       => \A v \in ReturnedValues(last') :
              /\ BothBackgrounds(v, gsm')
              /\ CmbScale(v.row) = "1"]_vars

C29_Witness ==
    /\ CmbLookupOnCmbModel(last, gsm)
    /\ gsm.kind = "GSM16"
    /\ gsm.data_unit = "MJysr"
    /\ last.arg.freqs = <<>>
    /\ "row" \in DOMAIN last.ret
    /\ last.ret.plus = T_CMB
    /\ last.ret.row.offset = T_CMB
    /\ CmbScale(last.ret.row) # "1"

(***************************************************************************)
(* C30: download_from_url_list tries the URLs in list order; it returns    *)
(* the path of the first URL whose download succeeds and tries no URL      *)
(* after it; it raises RuntimeError exactly when every URL of the list     *)
(* failed; a single string is a list of one URL.                           *)
(***************************************************************************)
(* the list the caller means *)
MeantUrls(url_list) == IF url_list.type = "str" THEN <<url_list.value>> ELSE url_list.value

C30_FirstSuccessWins ==
    last.op = "download_from_url_list"
    => \E urls \in {MeantUrls(last.arg)} :
       \E tried \in {last.did.tried} :
           /\ Len(tried) <= Len(urls)
           /\ \A i \in 1..Len(tried) : tried[i].url = urls[i]
           /\ \A i \in 1..(Len(tried) - 1) : tried[i].outcome = "Exception"
           /\ last.err = "none"
                  => /\ tried # <<>>
                     /\ tried[Len(tried)].outcome = "ok"
                     /\ last.ret = download_file(urls[Len(tried)])
           /\ last.err = "RuntimeError"
                  <=> /\ Len(tried) = Len(urls)
                      /\ \A i \in 1..Len(tried) : tried[i].outcome = "Exception"

(* second URL of three succeeds; the third is never tried *)
C30_Witness ==
    /\ last.op = "download_from_url_list"
    /\ last.err = "none"
    /\ last.arg.type = "list"
    /\ Len(last.arg.value) = 3
    /\ Len(last.did.tried) = 2
    /\ last.did.tried[1].outcome = "Exception"
    /\ last.ret = download_file(last.arg.value[2])

====
